---- MODULE Spec2Model ----
(***************************************************************************)
(* cc-notifier: the session tracker (hooks/cc_notifier/database.py and the *)
(* SQL of hooks/cc_notifier/config.py), the three event adapters           *)
(* (hooks/cc_notifier/events/*.py) and the throttled auto-cleanup of the   *)
(* stop adapter.                                                           *)
(*                                                                         *)
(* Every adapter is a short-lived OS process.  The submit and the waiting  *)
(* adapter run one SQLite transaction each, so each is one atomic action.  *)
(* The stop adapter runs several transactions and file operations in a     *)
(* row; it is modelled as a process with a program counter, one step per   *)
(* transaction, so that stop adapters of different processes interleave.   *)
(*                                                                         *)
(* Time is counted in whole seconds from Epoch (CURRENT_TIMESTAMP has a    *)
(* resolution of one second).                                              *)
(***************************************************************************)
EXTENDS Integers, Sequences, FiniteSets, TLC

(***************************************************************************)
(* Bounds of the model.                                                    *)
(***************************************************************************)
\* number of rows ever inserted
MaxRows == 2
\* number of clock advances
MaxTicks == 1
\* number of rows ever inserted by the adapters run as one step
MaxAdapterRows == 1
\* greatest argument of format_duration
MaxSeconds == 7325
\* calls of send_notification per MacNotifier instance
MaxSends == 3

\* the stop adapters that may run at the same time
Procs == {"p1", "p2"}

\* session_id values of the events
Sessions == {"s1", "s2"}

\* prompt and cwd values of the events
Prompts == {"do X"}
Cwds == {"/proj"}

(***************************************************************************)
(* Program constants.                                                      *)
(***************************************************************************)
\* timedelta(hours=24) and timedelta(days=1), in seconds
DaySeconds == 86400

\* steps by which the clock advances: a second, a day and a second
TickSteps == {1, DaySeconds + 1}

\* 2026-11-02 00:00:00 UTC is 212660337600 seconds after the origin of the
\* Julian day count; julianday() depends on that number modulo 675 only
\* (see JulianError), and 212660337600 % 675 = 0.
EpochJulianResidue == 0

(***************************************************************************)
(* SQLite values.  A column holds a value of a storage class; DATETIME     *)
(* columns have NUMERIC affinity, and CURRENT_TIMESTAMP stores the text    *)
(* 'YYYY-MM-DD HH:MM:SS', which is not a number and so stays TEXT.  A text *)
(* timestamp is represented by its class and its second; texts of this     *)
(* form compare as their seconds do.                                       *)
(***************************************************************************)
Null == [cls |-> "null", v |-> 0]
SqlText(t) == [cls |-> "text", v |-> t]
SqlInt(n) == [cls |-> "integer", v |-> n]

IsNull(x) == x.cls = "null"

\* SQLite's order of storage classes: NULL < INTEGER < TEXT
ClassRank(x) == CASE x.cls = "null" -> 0
                  [] x.cls = "integer" -> 1
                  [] x.cls = "text" -> 2

\* the comparison a < b of two non-NULL values (a comparison with NULL is
\* not true)
SqlLess(a, b) ==
    /\ ~IsNull(a)
    /\ ~IsNull(b)
    /\ \/ ClassRank(a) < ClassRank(b)
       \/ ClassRank(a) = ClassRank(b) /\ a.v < b.v

VARIABLES
    rows,         \* the sessions table: a set of rows
    nextId,       \* AUTOINCREMENT: the next id of the table
    now,          \* the clock, in seconds since Epoch
    ticks,        \* number of clock advances so far
    sentinel,     \* mtime of the .last_cleanup file; -1 when it does not exist
    config,       \* the runtime configuration, read-only
    tieBreak,     \* the order in which the build returns rows of equal created_at
    pc,           \* per stop adapter: the step it is at
    sess,         \* per stop adapter: session_id of its event
    closedRow,    \* per stop adapter: the row its mark_stopped closed
    job,          \* per stop adapter: what get_job_info returned
    sent,         \* per stop adapter: the notify_job_done call it made
    cutoff,       \* per stop adapter: cutoff_timestamp of its cleanup
    stats,        \* per stop adapter: the stats of its cleanup
    lastPurge,    \* history: time of the latest purge of a cleanup; -1 when none
    submitted,    \* history: per session, rows inserted
    closed,       \* history: per session, mark_stopped calls that updated a row
    assigned,     \* history: per session, the job_numbers assigned, in order
    event,        \* the input of the latest adapter run as one step
    exitStatus,   \* its exit status; -1 before the first run
    failedOp,     \* the store operation that failed in it, "none" when none did
    notified,     \* the notify_job_done call it made
    report,       \* the cleanup_old_data call of the latest step, and its stats
    exportFile,   \* the JSON file the latest step wrote
    package,      \* the package the MacNotifier instances are of
    notifiers,    \* per MacNotifier instance: _available, and counts of its calls
    sendResult,   \* what the latest send_notification call returned
    seconds,      \* the argument of format_duration
    formatted     \* its result

\* the variables of the adapters run as one step, and of format_duration
adapterVars == <<event, exitStatus, failedOp, notified, report, exportFile>>
notifierVars == <<package, notifiers, sendResult>>
formatVars == <<seconds, formatted>>

vars == <<rows, nextId, now, ticks, sentinel, config, tieBreak, pc, sess, closedRow, job,
          sent, cutoff, stats, lastPurge, submitted, closed, assigned, adapterVars,
          notifierVars, formatVars>>

(***************************************************************************)
(* The sessions table (DB_SCHEMA).                                         *)
(***************************************************************************)
SessionRows(rs, s) == {r \in rs : r.session_id = s}

IsOpen(r) == IsNull(r.stopped_at)

OpenRows(rs, s) == {r \in SessionRows(rs, s) : IsOpen(r)}

ClosedRows(rs, s) == {r \in SessionRows(rs, s) : ~IsOpen(r)}

SetMax(S) == CHOOSE x \in S : \A y \in S : y <= x

\* the trigger auto_job_number counts over all sessions
NextJobNumberAllSessions(rs, s) ==
    IF rs = {} THEN 1 ELSE SetMax({r.job_number : r \in rs}) + 1

\* the trigger auto_job_number: COALESCE(MAX(job_number), 0) + 1 over the rows
\* of the session (the new row has job_number NULL, which MAX ignores)
NextJobNumber(rs, s) ==
    IF SessionRows(rs, s) = {} THEN 1
    ELSE SetMax({r.job_number : r \in SessionRows(rs, s)}) + 1

\* the row INSERT INTO sessions (session_id, prompt, cwd) stores, after the
\* trigger has run
NewRow(rs, id, s, prompt, cwd, t) ==
    [id |-> id, session_id |-> s, created_at |-> SqlText(t), prompt |-> prompt,
     cwd |-> cwd, job_number |-> NextJobNumber(rs, s), stopped_at |-> Null,
     last_wait_at |-> Null, duration_seconds |-> Null]

(***************************************************************************)
(* Initial state: an empty store, no sentinel, a configuration that passed *)
(* validation (threshold_seconds >= 0, retention_days >= 1).               *)
(***************************************************************************)
\* the configurations: notification.threshold_seconds, cleanup.retention_days,
\* cleanup.auto_cleanup_enabled, cleanup.export_before_cleanup
Config(threshold, days, auto, export) ==
    [threshold_seconds |-> threshold, retention_days |-> days,
     auto_cleanup_enabled |-> auto, export_before_cleanup |-> export]

Configs == {Config(0, 1, TRUE, TRUE), Config(1, 1, TRUE, FALSE),
            Config(1, 1, FALSE, TRUE)}

NoRow == [found |-> FALSE, id |-> 0, job_number |-> 0, duration_seconds |-> 0]
NoJob == [found |-> FALSE, job_number |-> 0, duration_seconds |-> 0]
NoStats == [rows_deleted |-> 0, rows_exported |-> 0]
NoEvent == [kind |-> "none"]

\* the MacNotifier instances
Notifiers == {"n1", "n2"}

\* MacNotifier.__init__: _available is None; nothing probed, nothing sent
NewNotifier == [available |-> "None", probes |-> 0, contacts |-> 0, calls |-> 0]
NoReport == [called |-> FALSE, retention_days |-> 0, rows_exported |-> 0,
             rows_deleted |-> 0]
NoFile == [written |-> FALSE, rows |-> {}, count |-> 0]

\* an optional int: None, or the int n
NoDays == [given |-> FALSE, v |-> 0]
Days(n) == [given |-> TRUE, v |-> n]

Init ==
    /\ rows = {}
    /\ nextId = 1
    /\ now = 0
    /\ ticks = 0
    /\ sentinel = -1
    /\ config \in Configs
    /\ tieBreak \in {"lowest_id", "highest_id"}
    /\ pc = [p \in Procs |-> "idle"]
    /\ sess = [p \in Procs |-> "s1"]
    /\ closedRow = [p \in Procs |-> NoRow]
    /\ job = [p \in Procs |-> NoJob]
    /\ sent = [p \in Procs |-> NoJob]
    /\ cutoff = [p \in Procs |-> 0]
    /\ stats = [p \in Procs |-> NoStats]
    /\ lastPurge = -1
    /\ submitted = [s \in Sessions |-> 0]
    /\ closed = [s \in Sessions |-> 0]
    /\ assigned = [s \in Sessions |-> <<>>]
    /\ event = NoEvent
    /\ exitStatus = -1
    /\ failedOp = "none"
    /\ notified = NoJob
    /\ report = NoReport
    /\ exportFile = NoFile
    /\ package = "cc_notifier"
    /\ notifiers = [n \in Notifiers |-> NewNotifier]
    /\ sendResult = "none"
    /\ seconds = 0
    /\ formatted = <<>>

(***************************************************************************)
(* The clock.                                                              *)
(***************************************************************************)
Tick ==
    /\ ticks < MaxTicks
    /\ \E d \in TickSteps : now' = now + d
    /\ ticks' = ticks + 1
    /\ UNCHANGED <<assigned, adapterVars, notifierVars, formatVars>>
    /\ UNCHANGED <<rows, nextId, sentinel, config, tieBreak, pc, sess, closedRow, job,
                   sent, cutoff, stats, lastPurge, submitted, closed>>

(***************************************************************************)
(* events/user_prompt.py main -> SessionTracker.track_prompt: one          *)
(* transaction, the INSERT with its trigger.                               *)
(***************************************************************************)
TrackPrompt(s, prompt, cwd) ==
    /\ nextId <= MaxRows
    /\ rows' = rows \cup {NewRow(rows, nextId, s, prompt, cwd, now)}
    /\ nextId' = nextId + 1
    /\ submitted' = [submitted EXCEPT ![s] = @ + 1]
    /\ assigned' = [assigned EXCEPT ![s] = Append(@, NextJobNumber(rows, s))]
    /\ UNCHANGED <<adapterVars, notifierVars, formatVars>>
    /\ UNCHANGED <<now, ticks, sentinel, config, tieBreak, pc, sess, closedRow, job,
                   sent, cutoff, stats, lastPurge, closed>>

(***************************************************************************)
(* SQL_UPDATE_WAITING and SQL_UPDATE_STOPPED update the row                *)
(*   SELECT id FROM sessions WHERE session_id = ? AND stopped_at IS NULL   *)
(*   ORDER BY created_at DESC LIMIT 1.                                     *)
(* SQL leaves the order of rows with equal created_at open; SQLite returns *)
(* them in the order of its query plan: by ascending id when it searches   *)
(* idx_session_id and sorts (the plan of SQLite 3.40 for this schema), by  *)
(* descending id when it scans idx_created_at backwards.  tieBreak is the  *)
(* plan of the build.                                                      *)
(***************************************************************************)
Latest(S) == {r \in S : \A q \in S : ~SqlLess(r.created_at, q.created_at)}

\* ORDER BY created_at DESC LIMIT 1 over the rows S: no row, or the one row
FirstByCreatedAtDesc(S) ==
    {r \in Latest(S) :
        \A q \in Latest(S) :
            IF tieBreak = "lowest_id" THEN r.id <= q.id ELSE r.id >= q.id}

\* the subquery of SQL_UPDATE_STOPPED without its condition stopped_at IS NULL
StoppedTargetAnyRow(rs, s) == FirstByCreatedAtDesc(SessionRows(rs, s))

\* the subquery of SQL_UPDATE_STOPPED without its condition session_id = ?
StoppedTargetAnySession(rs, s) == FirstByCreatedAtDesc({r \in rs : IsOpen(r)})

\* the subquery of SQL_UPDATE_STOPPED
StoppedTarget(rs, s) == FirstByCreatedAtDesc(OpenRows(rs, s))

\* the subquery of SQL_UPDATE_WAITING without its condition stopped_at IS NULL
WaitingTargetAnyRow(rs, s) == FirstByCreatedAtDesc(SessionRows(rs, s))

\* the subquery of SQL_UPDATE_WAITING
WaitingTarget(rs, s) == FirstByCreatedAtDesc(OpenRows(rs, s))

\* SQL_GET_JOB_INFO: the closed row of the session with the greatest created_at
JobInfoTarget(rs, s) == FirstByCreatedAtDesc(ClosedRows(rs, s))

(***************************************************************************)
(* julianday(x) is the double nearest to (seconds since the Julian origin) *)
(* / 86400.  Near the year 2026 a double of that size is a multiple of     *)
(* 2^-31 days, i.e. of 675 / 2^24 seconds.  With s the seconds since the   *)
(* Julian origin, julianday is (s * 2^24 + JulianError) / 675 such units,  *)
(* where JulianError is the rounding, the residue of s * 2^24 modulo 675   *)
(* taken to the nearer side (2^24 % 675 = 91; 675 is odd, so no ties).     *)
(***************************************************************************)
JulianError(t) ==
    LET m == ((EpochJulianResidue + t) * 91) % 675
    IN  IF m <= 337 THEN 0 - m ELSE 675 - m

\* CAST((julianday(stopped) - julianday(created)) * 86400 AS INTEGER): the
\* difference and the product are exact in doubles, and equal
\* (stopped - created) + (JulianError(stopped) - JulianError(created)) / 2^24
\* seconds; CAST truncates toward zero.
DurationSeconds(created, stopped) ==
    LET d == stopped - created
        e == JulianError(stopped) - JulianError(created)
    IN  IF d > 0 /\ e < 0 THEN d - 1
        ELSE IF d < 0 /\ e > 0 THEN d + 1
        ELSE d

\* SQL_UPDATE_STOPPED setting duration_seconds and not stopped_at
StoppedRowStaysOpen(r, t) ==
    [r EXCEPT !.duration_seconds = SqlInt(DurationSeconds(r.created_at.v, t))]

\* SQL_UPDATE_STOPPED setting stopped_at and not duration_seconds
StoppedRowWithoutDuration(r, t) == [r EXCEPT !.stopped_at = SqlText(t)]

\* SQL_UPDATE_STOPPED applied to row r at time t
StoppedRow(r, t) ==
    [r EXCEPT !.stopped_at = SqlText(t),
              !.duration_seconds = SqlInt(DurationSeconds(r.created_at.v, t))]

\* SQL_UPDATE_WAITING applied to row r at time t
WaitingRow(r, t) == [r EXCEPT !.last_wait_at = SqlText(t)]

(***************************************************************************)
(* events/notification.py main -> SessionTracker.mark_waiting, for a       *)
(* message that is a waiting notification: one transaction.                *)
(***************************************************************************)
MarkWaiting(s) ==
    /\ \/ /\ WaitingTarget(rows, s) = {}
          /\ rows' = rows
       \/ \E r \in WaitingTarget(rows, s) :
              rows' = (rows \ {r}) \cup {WaitingRow(r, now)}
    /\ UNCHANGED <<assigned, adapterVars, notifierVars, formatVars>>
    /\ UNCHANGED <<nextId, now, ticks, sentinel, config, tieBreak, pc, sess, closedRow,
                   job, sent, cutoff, stats, lastPurge, submitted, closed>>

(***************************************************************************)
(* events/stop.py main, first step: SessionTracker.mark_stopped, one       *)
(* transaction.  cursor.rowcount > 0 when a row was updated.               *)
(***************************************************************************)
AsClosedRow(r) ==
    [found |-> TRUE, id |-> r.id, job_number |-> r.job_number,
     duration_seconds |-> r.duration_seconds.v]

MarkStopped(p, s) ==
    /\ pc[p] = "idle"
    /\ sess' = [sess EXCEPT ![p] = s]
    /\ pc' = [pc EXCEPT ![p] = "job_info"]
    /\ \/ /\ StoppedTarget(rows, s) = {}
          /\ rows' = rows
          /\ closedRow' = [closedRow EXCEPT ![p] = NoRow]
          /\ closed' = closed
       \/ \E r \in StoppedTarget(rows, s) :
              /\ rows' = (rows \ {r}) \cup {StoppedRow(r, now)}
              /\ closedRow' = [closedRow EXCEPT ![p] = AsClosedRow(StoppedRow(r, now))]
              /\ closed' = [closed EXCEPT ![s] = @ + 1]
    /\ UNCHANGED <<assigned, adapterVars, notifierVars, formatVars>>
    /\ UNCHANGED <<nextId, now, ticks, sentinel, config, tieBreak, job, sent, cutoff,
                   stats, lastPurge, submitted>>

(***************************************************************************)
(* events/stop.py main, second step: SessionTracker.get_job_info, the      *)
(* threshold gate and MacNotifier.notify_job_done.                         *)
(***************************************************************************)
\* the gate with a strict comparison
ShouldNotifyStrict(duration_seconds, threshold) == duration_seconds > threshold

ShouldNotify(duration_seconds, threshold) == duration_seconds >= threshold

AsJob(r) ==
    [found |-> TRUE, job_number |-> r.job_number,
     duration_seconds |-> r.duration_seconds.v]

\* what get_job_info may return: (None, None) or the selected row's columns
GetJobInfo(rs, s) ==
    IF JobInfoTarget(rs, s) = {} THEN {NoJob}
    ELSE {AsJob(r) : r \in JobInfoTarget(rs, s)}

NotifyJobDone(p) ==
    /\ pc[p] = "job_info"
    /\ pc' = [pc EXCEPT ![p] = "auto_cleanup"]
    /\ \E j \in GetJobInfo(rows, sess[p]) :
           /\ job' = [job EXCEPT ![p] = j]
           /\ sent' = [sent EXCEPT ![p] =
                  IF j.found /\ ShouldNotify(j.duration_seconds, config.threshold_seconds)
                  THEN j ELSE NoJob]
    /\ UNCHANGED <<assigned, adapterVars, notifierVars, formatVars>>
    /\ UNCHANGED <<rows, nextId, now, ticks, sentinel, config, tieBreak, sess, closedRow,
                   cutoff, stats, lastPurge, submitted, closed>>

(***************************************************************************)
(* events/stop.py main, auto-cleanup: should_run_auto_cleanup, then        *)
(* SessionTracker.cleanup_old_data (the export, then the DELETE in a       *)
(* transaction of its own), then mark_cleanup_done.                        *)
(***************************************************************************)
\* the check without the 24 hours
ShouldRunAutoCleanupAlways(mtime, t) == TRUE

ShouldRunAutoCleanup(mtime, t) == mtime = -1 \/ t - mtime > DaySeconds

\* int((datetime.now() - timedelta(days=retention_days)).timestamp())
CutoffTimestamp(t, retention_days) == SqlInt(t - retention_days * DaySeconds)

\* export_to_json(export_path), called without days: every row
ExportedRows(rs) == rs

\* the DELETE comparing created_at with the cutoff as seconds, whatever their
\* storage classes
DeletedRowsBySeconds(rs, c) == {r \in rs : r.created_at.v < c.v}

\* DELETE FROM sessions WHERE created_at < ?
DeletedRows(rs, c) == {r \in rs : SqlLess(r.created_at, c)}

ExitStop(p) ==
    /\ pc' = [pc EXCEPT ![p] = "idle"]
    /\ sess' = [sess EXCEPT ![p] = "s1"]
    /\ closedRow' = [closedRow EXCEPT ![p] = NoRow]
    /\ job' = [job EXCEPT ![p] = NoJob]
    /\ sent' = [sent EXCEPT ![p] = NoJob]
    /\ cutoff' = [cutoff EXCEPT ![p] = 0]
    /\ stats' = [stats EXCEPT ![p] = NoStats]

SkipAutoCleanup(p) ==
    /\ pc[p] = "auto_cleanup"
    /\ ~(config.auto_cleanup_enabled /\ ShouldRunAutoCleanup(sentinel, now))
    /\ ExitStop(p)
    /\ UNCHANGED <<assigned, adapterVars, notifierVars, formatVars>>
    /\ UNCHANGED <<rows, nextId, now, ticks, sentinel, config, tieBreak, lastPurge,
                   submitted, closed>>

BeginCleanup(p) ==
    /\ pc[p] = "auto_cleanup"
    /\ config.auto_cleanup_enabled
    /\ ShouldRunAutoCleanup(sentinel, now)
    /\ pc' = [pc EXCEPT ![p] = "purge"]
    /\ cutoff' = [cutoff EXCEPT ![p] = CutoffTimestamp(now, config.retention_days).v]
    /\ stats' = [stats EXCEPT ![p].rows_exported =
           IF config.export_before_cleanup
           THEN Cardinality(ExportedRows(rows)) ELSE 0]
    \* session_id, job_number and duration_seconds are not used from here on
    /\ sess' = [sess EXCEPT ![p] = "s1"]
    /\ closedRow' = [closedRow EXCEPT ![p] = NoRow]
    /\ job' = [job EXCEPT ![p] = NoJob]
    /\ sent' = [sent EXCEPT ![p] = NoJob]
    /\ UNCHANGED <<assigned, adapterVars, notifierVars, formatVars>>
    /\ UNCHANGED <<rows, nextId, now, ticks, sentinel, config, tieBreak, lastPurge,
                   submitted, closed>>

Purge(p) ==
    /\ pc[p] = "purge"
    /\ pc' = [pc EXCEPT ![p] = "mark_done"]
    /\ rows' = rows \ DeletedRows(rows, SqlInt(cutoff[p]))
    /\ stats' = [stats EXCEPT ![p].rows_deleted =
           Cardinality(DeletedRows(rows, SqlInt(cutoff[p])))]
    /\ lastPurge' = now
    /\ UNCHANGED <<assigned, adapterVars, notifierVars, formatVars>>
    /\ UNCHANGED <<nextId, now, ticks, sentinel, config, tieBreak, sess, closedRow, job,
                   sent, cutoff, submitted, closed>>

MarkCleanupDone(p) ==
    /\ pc[p] = "mark_done"
    /\ sentinel' = now
    /\ ExitStop(p)
    /\ UNCHANGED <<assigned, adapterVars, notifierVars, formatVars>>
    /\ UNCHANGED <<rows, nextId, now, ticks, config, tieBreak, lastPurge, submitted,
                   closed>>

Next ==
    \/ Tick
    \/ \E s \in Sessions, prompt \in Prompts, cwd \in Cwds :
           TrackPrompt(s, prompt, cwd)
    \/ \E s \in Sessions : MarkWaiting(s)
    \/ \E p \in Procs, s \in Sessions : MarkStopped(p, s)
    \/ \E p \in Procs : NotifyJobDone(p)
    \/ \E p \in Procs : SkipAutoCleanup(p)
    \/ \E p \in Procs : BeginCleanup(p)
    \/ \E p \in Procs : Purge(p)
    \/ \E p \in Procs : MarkCleanupDone(p)

Spec == Init /\ [][Next]_vars

(***************************************************************************)
(* The adapters from standard input to exit status, each run as one step:  *)
(* read_stdin_json, validate_input, the check of session_id, the           *)
(* construction of SessionTracker, the store operations, sys.exit.         *)
(* A cwd is a sequence of characters.  Of a session_id the code inspects   *)
(* the length only; it is a character and the number of its repetitions.   *)
(***************************************************************************)
\* len(session_id) > 255 is invalid
MaxSessionIdLen == 255

\* the string ch * n
Repeat(ch, n) == [ch |-> ch, n |-> n]

\* the empty string
Empty == Repeat("", 0)

StrLen(x) == x.n

\* values of the key message
Messages ==
    {"Claude is waiting for input", "WAITING FOR USER", "Approval Needed: rm",
     "Build finished", "waiting for", ""}

\* str.lower on the letters of the messages
LowerCase ==
    [A |-> "a", B |-> "b", C |-> "c", D |-> "d", E |-> "e", F |-> "f", G |-> "g",
     H |-> "h", I |-> "i", J |-> "j", K |-> "k", L |-> "l", M |-> "m", N |-> "n",
     O |-> "o", P |-> "p", Q |-> "q", R |-> "r", S |-> "s", T |-> "t", U |-> "u",
     V |-> "v", W |-> "w", X |-> "x", Y |-> "y", Z |-> "z"]

RECURSIVE Lower(_)
\* message.lower()
Lower(message) ==
    IF message = "" THEN ""
    ELSE LET c == SubSeq(message, 1, 1)
         IN  (IF c \in DOMAIN LowerCase THEN LowerCase[c] ELSE c)
                 \o Lower(SubSeq(message, 2, Len(message)))

\* keyword in text
Contains(text, keyword) ==
    \E i \in 1..(Len(text) - Len(keyword) + 1) :
        SubSeq(text, i, i + Len(keyword) - 1) = keyword

waiting_keywords == {"waiting for input", "waiting for user", "approval needed"}

\* is_waiting with the keywords looked up in the message as it was written
IsWaitingCaseSensitive(message) ==
    \E keyword \in waiting_keywords : Contains(message, keyword)

\* is_waiting
IsWaiting(message) ==
    \E keyword \in waiting_keywords : Contains(Lower(message), keyword)

\* the messages of the values above that contain one of waiting_keywords
WaitingMessages == {message \in Messages : IsWaiting(message)}

\* the JSON object with the keys session_id and cwd
Object(session_id, cwd) ==
    [json |-> "object", has_session_id |-> TRUE, session_id |-> session_id,
     has_cwd |-> TRUE, cwd |-> cwd]

\* standard input: text that is not JSON, or a JSON object; an absent key
\* carries the default of data.get
Inputs ==
    {[json |-> "malformed", has_session_id |-> FALSE, session_id |-> Empty,
      has_cwd |-> FALSE, cwd |-> <<>>],
     [json |-> "object", has_session_id |-> FALSE, session_id |-> Empty,
      has_cwd |-> TRUE, cwd |-> <<"/", "p">>],
     [json |-> "object", has_session_id |-> TRUE, session_id |-> Repeat("s", 1),
      has_cwd |-> FALSE, cwd |-> <<>>],
     Object(Repeat("s", 1), <<".", "/", "p">>),
     Object(Repeat("x", MaxSessionIdLen), <<".", "/", "p">>),
     Object(Empty, <<"/", "p">>),
     Object(Repeat("x", MaxSessionIdLen + 1), <<"/", "p">>),
     Object(Repeat("s", 1), <<"/", "p", "/", ".", ".", "/", "q">>)}

\* cwd.startswith("..")
StartsWithDotDot(cwd) == Len(cwd) >= 2 /\ cwd[1] = "." /\ cwd[2] = "."

\* ".." in cwd
HasDotDot(cwd) ==
    \E i \in 1..(Len(cwd) - 1) : cwd[i] = "." /\ cwd[i + 1] = "."

\* validate_input raises ValueError
ValidateInputRaises(data) ==
    \/ data.has_cwd /\ HasDotDot(data.cwd)
    \/ data.has_session_id
          /\ (data.session_id = Empty \/ StrLen(data.session_id) > MaxSessionIdLen)

\* the adapter without its check of data.get("session_id", "")
RejectsInputBeforeSessionCheck(data) ==
    \/ data.json = "malformed"
    \/ ValidateInputRaises(data)

\* the adapter leaves with sys.exit(1) before it constructs SessionTracker:
\* read_stdin_json or validate_input raised (except Exception), or
\* data.get("session_id", "") is empty
RejectsInput(data) ==
    \/ data.json = "malformed"
    \/ ValidateInputRaises(data)
    \/ data.session_id = Empty

\* a transaction that raised sqlite3.Error after its statement was committed
FailedTransactionCommitted(before, after) == after

\* a transaction that raised sqlite3.Error: the connection is closed without
\* a commit, which rolls back
FailedTransaction(before, after) == before

\* the variables an adapter run as one step leaves alone
otherVars == <<now, ticks, config, tieBreak, pc, sess, closedRow, job, sent, cutoff,
               stats, lastPurge, submitted, closed, assigned, notifierVars,
               formatVars>>

Event(kind, data, message) == [kind |-> kind, data |-> data, message |-> message]

\* the adapter does not reach the store: sys.exit(1)
Rejected(ev) ==
    /\ RejectsInput(ev.data)
    /\ event' = ev
    /\ exitStatus' = 1
    /\ failedOp' = "none"
    /\ notified' = NoJob
    /\ report' = NoReport
    /\ exportFile' = NoFile
    /\ UNCHANGED <<rows, nextId, sentinel, otherVars>>

\* SessionTracker() raises: _init_database logs and re-raises sqlite3.Error,
\* and the adapter's except Exception ends it with sys.exit(1)
InitFailed(ev) ==
    /\ ~RejectsInput(ev.data)
    /\ event' = ev
    /\ exitStatus' = 1
    /\ failedOp' = "_init_database"
    /\ notified' = NoJob
    /\ report' = NoReport
    /\ exportFile' = NoFile
    /\ UNCHANGED <<rows, nextId, sentinel, otherVars>>

\* events/user_prompt.py main
UserPromptMain(data, prompt, fault) ==
    LET ev == Event("UserPromptSubmit", data, "")
        after == rows \cup {NewRow(rows, nextId, data.session_id, prompt, data.cwd, now)}
    IN  \/ fault = "none" /\ Rejected(ev)
        \/ fault = "_init_database" /\ InitFailed(ev)
        \/ /\ ~RejectsInput(data)
           /\ fault \in {"none", "track_prompt"}
           /\ fault = "none" => nextId <= MaxAdapterRows
           /\ rows' = IF fault = "none" THEN after ELSE FailedTransaction(rows, after)
           /\ nextId' = IF fault = "none" THEN nextId + 1 ELSE nextId
           /\ event' = ev
           /\ exitStatus' = 0
           /\ failedOp' = fault
           /\ notified' = NoJob
           /\ report' = NoReport
           /\ exportFile' = NoFile
           /\ UNCHANGED <<sentinel, otherVars>>

\* events/notification.py main
NotificationMain(data, message, fault) ==
    LET ev == Event("Notification", data, message)
        target == WaitingTarget(rows, data.session_id)
        after == (rows \ target) \cup {WaitingRow(r, now) : r \in target}
    IN  \/ fault = "none" /\ Rejected(ev)
        \/ /\ fault = "_init_database"
           /\ message \in WaitingMessages
           /\ InitFailed(ev)
        \/ /\ ~RejectsInput(data)
           /\ IF message \in WaitingMessages
              THEN /\ fault \in {"none", "mark_waiting"}
                   /\ rows' = IF fault = "none" THEN after
                              ELSE FailedTransaction(rows, after)
              ELSE /\ fault = "none"
                   /\ rows' = rows
           /\ event' = ev
           /\ exitStatus' = 0
           /\ failedOp' = fault
           /\ notified' = NoJob
           /\ report' = NoReport
           /\ exportFile' = NoFile
           /\ UNCHANGED <<nextId, sentinel, otherVars>>

\* the sentinel is touched only after a cleanup in which nothing failed
SentinelAfterCleanupIfOk(mtime, t, fault) ==
    IF fault \in {"export_to_json", "DELETE", "VACUUM"} THEN mtime ELSE t

\* mark_cleanup_done after cleanup_old_data has returned: cleanup_old_data
\* catches sqlite3.Error and OSError and returns its stats, so the touch of
\* LAST_CLEANUP_FILE follows whatever failed in it
SentinelAfterCleanup(mtime, t, fault) == t

\* the stats cleanup_old_data returns, with the retention_days it was given.
\* export_to_json returns 0 when it fails; a DELETE that raises leaves
\* rows_deleted at 0; a failing VACUUM comes after rows_deleted was set
CleanupReport(rs, t, retention_days, export_before, fault) ==
    [called |-> TRUE,
     retention_days |-> retention_days,
     rows_exported |-> IF export_before /\ fault # "export_to_json"
                       THEN Cardinality(ExportedRows(rs)) ELSE 0,
     rows_deleted |-> IF fault = "DELETE" THEN 0
                      ELSE Cardinality(DeletedRows(rs, CutoffTimestamp(t, retention_days)))]

\* the file export_to_json(export_path) leaves behind in cleanup_old_data
CleanupExport(rs, export_before, fault) ==
    IF export_before /\ fault # "export_to_json"
    THEN [written |-> TRUE, rows |-> ExportedRows(rs),
          count |-> Cardinality(ExportedRows(rs))]
    ELSE NoFile

\* the rows after cleanup_old_data: the DELETE is committed before VACUUM
CleanupRows(rs, t, retention_days, fault) ==
    LET purged == rs \ DeletedRows(rs, CutoffTimestamp(t, retention_days))
    IN  IF fault = "DELETE" THEN FailedTransaction(rs, purged) ELSE purged

\* events/stop.py main
StopMain(data, fault) ==
    LET ev == Event("Stop", data, "")
        s == data.session_id
        target == StoppedTarget(rows, s)
        stopped == (rows \ target) \cup {StoppedRow(r, now) : r \in target}
        rows1 == IF fault = "mark_stopped" THEN FailedTransaction(rows, stopped)
                 ELSE stopped
        jobs == IF fault = "get_job_info" THEN {NoJob} ELSE GetJobInfo(rows1, s)
        cleanup == config.auto_cleanup_enabled /\ ShouldRunAutoCleanup(sentinel, now)
    IN  \/ fault = "none" /\ Rejected(ev)
        \/ fault = "_init_database" /\ InitFailed(ev)
        \/ /\ ~RejectsInput(data)
           /\ fault \in {"none", "mark_stopped", "get_job_info", "export_to_json",
                         "DELETE", "VACUUM"}
           /\ fault \in {"DELETE", "VACUUM"} => cleanup
           /\ fault = "export_to_json" => cleanup /\ config.export_before_cleanup
           /\ \E j \in jobs :
                  notified' =
                      IF j.found /\ ShouldNotify(j.duration_seconds, config.threshold_seconds)
                      THEN j ELSE NoJob
           /\ rows' = IF cleanup
                      THEN CleanupRows(rows1, now, config.retention_days, fault)
                      ELSE rows1
           /\ report' = IF cleanup
                        THEN CleanupReport(rows1, now, config.retention_days,
                                           config.export_before_cleanup, fault)
                        ELSE NoReport
           /\ exportFile' = IF cleanup
                            THEN CleanupExport(rows1, config.export_before_cleanup, fault)
                            ELSE NoFile
           /\ sentinel' = IF cleanup THEN SentinelAfterCleanup(sentinel, now, fault)
                          ELSE sentinel
           /\ event' = ev
           /\ exitStatus' = 0
           /\ failedOp' = fault
           /\ UNCHANGED <<nextId, otherVars>>

AdapterFaults ==
    {"none", "_init_database", "track_prompt", "mark_waiting", "mark_stopped",
     "get_job_info", "export_to_json", "DELETE", "VACUUM"}

\* the rows the SELECT of export_to_json returns: every row, or with days
\* the rows WHERE created_at >= ?, which is NOT created_at < ? for the
\* created_at of a row (never NULL)
ExportQuery(rs, days, t) ==
    IF days.given THEN {r \in rs : ~SqlLess(r.created_at, CutoffTimestamp(t, days.v))}
    ELSE rs

\* the values of days export_to_json is called with
ExportDays == {NoDays, Days(0), Days(1)}

\* SessionTracker.export_to_json(output_path, days), called on its own; it
\* ends no process, so it leaves no exit status
ExportToJson(days, fault) ==
    /\ fault \in {"none", "export_to_json"}
    /\ exportFile' = IF fault = "none"
                     THEN [written |-> TRUE, rows |-> ExportQuery(rows, days, now),
                           count |-> Cardinality(ExportQuery(rows, days, now))]
                     ELSE NoFile
    /\ event' = [kind |-> "export", days |-> days]
    /\ exitStatus' = -1
    /\ failedOp' = fault
    /\ notified' = NoJob
    /\ report' = NoReport
    /\ UNCHANGED <<rows, nextId, sentinel, otherVars>>

\* the values of --days: the option left out, or an int (click type=int)
CliDays == {NoDays, Days(-1), Days(0), Days(2)}

\* how a run of the command goes on after SessionTracker(): --dry-run, the
\* confirmation declined, or the confirmation given
CliModes == {"dry_run", "cancelled", "run"}

\* cli.py cleanup: retention_days is --days when given, else the configured
\* value; only a confirmed run calls cleanup_old_data
CliCleanup(days, mode, no_export) ==
    LET retention_days == IF days.given THEN days.v ELSE config.retention_days
        export_before == ~no_export /\ config.export_before_cleanup
    IN  /\ rows' = IF mode = "run" THEN CleanupRows(rows, now, retention_days, "none")
                   ELSE rows
        /\ report' = IF mode = "run"
                     THEN CleanupReport(rows, now, retention_days, export_before, "none")
                     ELSE NoReport
        /\ exportFile' = IF mode = "run" THEN CleanupExport(rows, export_before, "none")
                         ELSE NoFile
        /\ event' = [kind |-> "cleanup", days |-> days, mode |-> mode,
                     no_export |-> no_export]
        /\ exitStatus' = 0
        /\ failedOp' = "none"
        /\ notified' = NoJob
        /\ UNCHANGED <<nextId, sentinel, otherVars>>

AdapterTick ==
    /\ Tick
    /\ \A p \in Procs : pc[p] = "idle"

AdapterNext ==
    \/ AdapterTick
    \/ \E data \in Inputs, prompt \in Prompts, fault \in AdapterFaults :
           UserPromptMain(data, prompt, fault)
    \/ \E data \in Inputs, message \in Messages, fault \in AdapterFaults :
           NotificationMain(data, message, fault)
    \/ \E data \in Inputs, fault \in AdapterFaults : StopMain(data, fault)
    \/ \E days \in ExportDays, fault \in AdapterFaults : ExportToJson(days, fault)
    \/ \E days \in CliDays, mode \in CliModes, no_export \in BOOLEAN :
           CliCleanup(days, mode, no_export)

\* CCNotifierConfig(): the defaults of the fields
DefaultConfig == Config(10, 30, TRUE, TRUE)

\* the contents of config.yaml: the configurations above, and two that the
\* field constraints (threshold_seconds ge=0, retention_days ge=1) refuse
ConfigFiles == Configs \cup {Config(1, 0, TRUE, TRUE), Config(-1, 1, TRUE, TRUE)}

\* ConfigLoader.load: CCNotifierConfig(**yaml_data), and the defaults when
\* that raises
LoadConfig(yaml) ==
    IF yaml.threshold_seconds >= 0 /\ yaml.retention_days >= 1 THEN yaml
    ELSE DefaultConfig

\* an empty store and the configuration loaded from config.yaml; with a
\* single row the order of rows of equal created_at plays no part
AdapterInit ==
    /\ rows = {}
    /\ nextId = 1
    /\ now = 0
    /\ ticks = 0
    /\ sentinel = -1
    /\ config \in {LoadConfig(yaml) : yaml \in ConfigFiles}
    /\ tieBreak = "lowest_id"
    /\ pc = [p \in Procs |-> "idle"]
    /\ sess = [p \in Procs |-> "s1"]
    /\ closedRow = [p \in Procs |-> NoRow]
    /\ job = [p \in Procs |-> NoJob]
    /\ sent = [p \in Procs |-> NoJob]
    /\ cutoff = [p \in Procs |-> 0]
    /\ stats = [p \in Procs |-> NoStats]
    /\ lastPurge = -1
    /\ submitted = [s \in Sessions |-> 0]
    /\ closed = [s \in Sessions |-> 0]
    /\ assigned = [s \in Sessions |-> <<>>]
    /\ event = NoEvent
    /\ exitStatus = -1
    /\ failedOp = "none"
    /\ notified = NoJob
    /\ report = NoReport
    /\ exportFile = NoFile
    /\ package = "cc_notifier"
    /\ notifiers = [n \in Notifiers |-> NewNotifier]
    /\ sendResult = "none"
    /\ seconds = 0
    /\ formatted = <<>>

AdapterSpec == AdapterInit /\ [][AdapterNext]_vars

(***************************************************************************)
(* MacNotifier.send_notification, in the package cc_notifier (notify-py)   *)
(* and in the package cc-notifier (terminal-notifier).  _available and     *)
(* what the call returns are written as Python writes them: "None",        *)
(* "True", "False"; "raised" stands for an exception that leaves the call. *)
(***************************************************************************)
Packages == {"cc_notifier", "cc-notifier"}

\* check_available past its first return: cc_notifier sets _available = True;
\* cc-notifier runs "which terminal-notifier"
ProbeOutcomes(pkg) ==
    IF pkg = "cc_notifier" THEN {"found"} ELSE {"found", "missing", "Exception"}

\* what the delivery does when it is contacted: Notify().send, or
\* subprocess.run of terminal-notifier
SendOutcomes(pkg) ==
    IF pkg = "cc_notifier" THEN {"ok", "Exception"}
    ELSE {"ok", "nonzero", "FileNotFoundError", "TimeoutExpired", "Exception"}

\* check_available probing on every call
MustProbeAlways(available) == TRUE

\* check_available returns the cached _available unless it is None
MustProbe(available) == available = "None"

\* _available after the probe
ProbeResult(pkg, probe) == IF probe = "found" THEN "True" ELSE "False"

\* the exceptions the except clauses of send_notification catch: all three
\* are subclasses of Exception
CaughtBySend == {"FileNotFoundError", "TimeoutExpired", "Exception"}

\* what send_notification returns once the delivery was contacted
SendResult(pkg, outcome) ==
    IF outcome = "ok" THEN "True"
    ELSE IF outcome = "nonzero" \/ outcome \in CaughtBySend THEN "False"
    ELSE "raised"

\* _available after the delivery was contacted: cc_notifier sets it to False
\* in except Exception, cc-notifier only in except FileNotFoundError
AvailableAfterSend(pkg, available, outcome) ==
    IF pkg = "cc_notifier"
    THEN IF outcome = "ok" THEN available ELSE "False"
    ELSE IF outcome = "FileNotFoundError" THEN "False" ELSE available

\* send_notification of the instance n
SendNotification(n, probe, outcome) ==
    LET self == notifiers[n]
        probing == MustProbe(self.available)
        available1 == IF probing THEN ProbeResult(package, probe) ELSE self.available
        contacting == available1 = "True"
    IN  /\ self.calls < MaxSends
        /\ probe \in ProbeOutcomes(package)
        /\ outcome \in SendOutcomes(package)
        /\ ~probing => probe = "found"
        /\ ~contacting => outcome = "ok"
        /\ notifiers' =
               [notifiers EXCEPT ![n] =
                   [available |-> IF contacting
                                  THEN AvailableAfterSend(package, available1, outcome)
                                  ELSE available1,
                    probes |-> self.probes + (IF probing THEN 1 ELSE 0),
                    contacts |-> self.contacts + (IF contacting THEN 1 ELSE 0),
                    calls |-> self.calls + 1]]
        /\ sendResult' = IF contacting THEN SendResult(package, outcome) ELSE "False"
        /\ UNCHANGED <<rows, nextId, now, ticks, sentinel, config, tieBreak, pc, sess,
                       closedRow, job, sent, cutoff, stats, lastPurge, submitted,
                       closed, assigned, adapterVars, package, formatVars>>

\* the store, the adapters and format_duration play no part in a notifier
NotifierInit ==
    /\ package \in Packages
    /\ notifiers = [n \in Notifiers |-> NewNotifier]
    /\ sendResult = "none"
    /\ rows = {}
    /\ nextId = 1
    /\ now = 0
    /\ ticks = 0
    /\ sentinel = -1
    /\ config = Config(0, 1, TRUE, TRUE)
    /\ tieBreak = "lowest_id"
    /\ pc = [p \in Procs |-> "idle"]
    /\ sess = [p \in Procs |-> "s1"]
    /\ closedRow = [p \in Procs |-> NoRow]
    /\ job = [p \in Procs |-> NoJob]
    /\ sent = [p \in Procs |-> NoJob]
    /\ cutoff = [p \in Procs |-> 0]
    /\ stats = [p \in Procs |-> NoStats]
    /\ lastPurge = -1
    /\ submitted = [s \in Sessions |-> 0]
    /\ closed = [s \in Sessions |-> 0]
    /\ assigned = [s \in Sessions |-> <<>>]
    /\ event = NoEvent
    /\ exitStatus = -1
    /\ failedOp = "none"
    /\ notified = NoJob
    /\ report = NoReport
    /\ exportFile = NoFile
    /\ seconds = 0
    /\ formatted = <<>>

NotifierNext ==
    \E n \in Notifiers, probe \in {"found", "missing", "Exception"},
       outcome \in {"ok", "nonzero", "FileNotFoundError", "TimeoutExpired", "Exception"} :
        SendNotification(n, probe, outcome)

NotifierSpec == NotifierInit /\ [][NotifierNext]_vars

(***************************************************************************)
(* utils.format_duration.  A string is a sequence of characters; an        *)
(* f-string writes an int in decimal.                                      *)
(***************************************************************************)
DecimalDigits == <<"0", "1", "2", "3", "4", "5", "6", "7", "8", "9">>

RECURSIVE Decimal(_)
\* f"{n}" for an int n >= 0
Decimal(n) ==
    IF n < 10 THEN <<DecimalDigits[n + 1]>>
    ELSE Decimal(n \div 10) \o <<DecimalDigits[(n % 10) + 1]>>

\* format_duration with its first comparison as seconds <= 60
FormatDurationFromSixtyOne(s) ==
    IF s <= 60 THEN Decimal(s) \o <<"s">>
    ELSE LET minutes == s \div 60
             remaining_seconds == s % 60
         IN  IF minutes < 60
             THEN IF remaining_seconds = 0 THEN Decimal(minutes) \o <<"m">>
                  ELSE Decimal(minutes) \o <<"m">> \o Decimal(remaining_seconds) \o <<"s">>
             ELSE LET hours == minutes \div 60
                      remaining_minutes == minutes % 60
                  IN  IF remaining_minutes = 0 THEN Decimal(hours) \o <<"h">>
                      ELSE Decimal(hours) \o <<"h">> \o Decimal(remaining_minutes) \o <<"m">>

FormatDuration(s) ==
    IF s < 60 THEN Decimal(s) \o <<"s">>
    ELSE LET minutes == s \div 60
             remaining_seconds == s % 60
         IN  IF minutes < 60
             THEN IF remaining_seconds = 0 THEN Decimal(minutes) \o <<"m">>
                  ELSE Decimal(minutes) \o <<"m">> \o Decimal(remaining_seconds) \o <<"s">>
             ELSE LET hours == minutes \div 60
                      remaining_minutes == minutes % 60
                  IN  IF remaining_minutes = 0 THEN Decimal(hours) \o <<"h">>
                      ELSE Decimal(hours) \o <<"h">> \o Decimal(remaining_minutes) \o <<"m">>

\* the store and the adapters play no part in format_duration
FormatInit ==
    /\ seconds \in 0..MaxSeconds
    /\ formatted = <<>>
    /\ rows = {}
    /\ nextId = 1
    /\ now = 0
    /\ ticks = 0
    /\ sentinel = -1
    /\ config = Config(0, 1, TRUE, TRUE)
    /\ tieBreak = "lowest_id"
    /\ pc = [p \in Procs |-> "idle"]
    /\ sess = [p \in Procs |-> "s1"]
    /\ closedRow = [p \in Procs |-> NoRow]
    /\ job = [p \in Procs |-> NoJob]
    /\ sent = [p \in Procs |-> NoJob]
    /\ cutoff = [p \in Procs |-> 0]
    /\ stats = [p \in Procs |-> NoStats]
    /\ lastPurge = -1
    /\ submitted = [s \in Sessions |-> 0]
    /\ closed = [s \in Sessions |-> 0]
    /\ assigned = [s \in Sessions |-> <<>>]
    /\ event = NoEvent
    /\ exitStatus = -1
    /\ failedOp = "none"
    /\ notified = NoJob
    /\ report = NoReport
    /\ exportFile = NoFile
    /\ package = "cc_notifier"
    /\ notifiers = [n \in Notifiers |-> NewNotifier]
    /\ sendResult = "none"

FormatDurationCall ==
    /\ formatted = <<>>
    /\ formatted' = FormatDuration(seconds)
    /\ UNCHANGED <<rows, nextId, now, ticks, sentinel, config, tieBreak, pc, sess,
                   closedRow, job, sent, cutoff, stats, lastPurge, submitted, closed,
                   assigned, adapterVars, notifierVars, seconds>>

FormatNext == FormatDurationCall

FormatSpec == FormatInit /\ [][FormatNext]_vars

(***************************************************************************)
(* Properties.                                                             *)
(***************************************************************************)
OpenCount(s) == Cardinality(OpenRows(rows, s))

\* C1: after N submits of a session_id, issued in any interleaving with the
\* other adapters, the session has N rows and their job_numbers are exactly
\* 1..N.
C1_JobNumbersAreOneToN ==
    \A s \in Sessions :
        /\ Cardinality(SessionRows(rows, s)) = submitted[s]
        /\ {r.job_number : r \in SessionRows(rows, s)} = 1..submitted[s]

\* two submits of one session, the second while a stop adapter of another
\* process is under way
C1_Witness ==
    \E s \in Sessions, p \in Procs :
        /\ submitted[s] = 2
        /\ pc[p] = "job_info"
        /\ \E r \in SessionRows(rows, s) : r.job_number = 2 /\ r.id = 2

\* C2 as claimed: every session_id has at most one row with stopped_at unset.
C2_AtMostOneOpenRow == \A s \in Sessions : OpenCount(s) <= 1

\* C2 as amended: a session_id has at most one open row per submit that no
\* stop has closed: open rows <= rows inserted - rows closed.
C2_OpenRowsWithinUnclosedSubmits ==
    \A s \in Sessions : OpenCount(s) <= submitted[s] - closed[s]

\* two submits and one stop: one row is left open
C2_Witness ==
    \E s \in Sessions : submitted[s] = 2 /\ closed[s] = 1 /\ OpenCount(s) = 1

\* C3: a closed row is in the store unchanged after every step, or it is gone
\* altogether and the step is the DELETE of a cleanup.
C3_ClosedRowsNeverChange ==
    [][\A r \in rows :
          ~IsOpen(r) =>
              \/ r \in rows'
              \/ /\ \E p \in Procs : pc[p] = "purge" /\ pc'[p] = "mark_done"
                 /\ \A q \in rows' : q.id # r.id]_vars

\* a row was closed; later a row of the same session was inserted, marked
\* waiting and closed
C3_Witness ==
    \E r, q \in rows :
        /\ r.session_id = q.session_id
        /\ ~IsOpen(r)
        /\ SqlLess(r.stopped_at, q.created_at)
        /\ ~IsNull(q.last_wait_at)
        /\ ~IsOpen(q)

\* C4: a mark_stopped for a session with one open row closes that row and
\* changes no other row; a mark_stopped for a session with no open row leaves
\* the store as it is.
C4_SecondStopIsNoOp ==
    [][\A p \in Procs :
          pc[p] = "idle" /\ pc'[p] = "job_info" =>
              /\ OpenCount(sess'[p]) = 0 => rows' = rows
              /\ OpenCount(sess'[p]) = 1 =>
                     /\ OpenRows(rows', sess'[p]) = {}
                     /\ Cardinality(rows' \ rows) = 1
                     /\ rows \ rows' = OpenRows(rows, sess'[p])]_vars

\* two stop adapters of one session under way at once, the session having one
\* row: one closed it, the other found no open row
C4_Witness ==
    \E p, q \in Procs :
        /\ pc[p] = "job_info" /\ pc[q] = "job_info"
        /\ sess[p] = sess[q]
        /\ submitted[sess[p]] = 1
        /\ closedRow[p].found
        /\ ~closedRow[q].found

\* C5: every closed row has stopped_at >= created_at and duration_seconds
\* equal to the whole seconds from created_at to stopped_at, never negative.
C5_DurationIsElapsedSeconds ==
    \A r \in rows :
        ~IsOpen(r) =>
            /\ r.stopped_at.v >= r.created_at.v
            /\ r.duration_seconds.v >= 0
            /\ r.duration_seconds.v = r.stopped_at.v - r.created_at.v

\* C6: a stop adapter that found a completed job has called notify_job_done
\* if and only if the job's duration_seconds >= threshold_seconds.
C6_NotifyIffThresholdMet ==
    \A p \in Procs :
        pc[p] = "auto_cleanup" =>
            /\ job[p].found =>
                   (sent[p].found <=>
                        job[p].duration_seconds >= config.threshold_seconds)
            /\ ~job[p].found => ~sent[p].found

\* a notification for a duration equal to the threshold
C6_Witness ==
    \E p \in Procs :
        /\ pc[p] = "auto_cleanup"
        /\ sent[p].found
        /\ sent[p].duration_seconds = config.threshold_seconds

\* C7: the job a stop adapter gates and notifies is the row its own
\* mark_stopped closed.
C7_NotifiesTheRowItClosed ==
    \A p \in Procs :
        pc[p] = "auto_cleanup" /\ closedRow[p].found =>
            /\ job[p].found
            /\ job[p].job_number = closedRow[p].job_number
            /\ job[p].duration_seconds = closedRow[p].duration_seconds

\* C8: a cleanup does its purge only if no purge was done in the 24 hours
\* before.
C8_OneCleanupPerDay ==
    [][\A p \in Procs :
          pc[p] = "purge" /\ pc'[p] = "mark_done" =>
              lastPurge = -1 \/ now - lastPurge > DaySeconds]_vars

\* C9: with export_before_cleanup, a cleanup reports rows_exported equal to
\* rows_deleted.
C9_ExportedEqualsDeleted ==
    \A p \in Procs :
        pc[p] = "mark_done" /\ config.export_before_cleanup =>
            stats[p].rows_exported = stats[p].rows_deleted

\* C10: when a cleanup has done its purge, no row created before its cutoff
\* (now - retention_days) is left in the store.
C10_OldRowsAreDeleted ==
    \A p \in Procs :
        pc[p] = "mark_done" => \A r \in rows : ~(r.created_at.v < cutoff[p])

\* C11: the DELETE of a cleanup removes exactly the rows created before its
\* cutoff (now - retention_days), reports their number as rows_deleted, and
\* leaves every other row as it is.
C11_CleanupDeletesExactlyOldRows ==
    [][\A p \in Procs :
          pc[p] = "purge" /\ pc'[p] = "mark_done" =>
              /\ rows' = {r \in rows : ~(r.created_at.v < cutoff[p])}
              /\ stats'[p].rows_deleted =
                     Cardinality({r \in rows : r.created_at.v < cutoff[p]})]_vars

\* C15: a waiting or stop event changes, among the open rows of its session,
\* only the one with the highest job_number, also when open rows have the same
\* created_at.
C15_OnlyNewestOpenRowChanges ==
    [][\A r \in rows :
          IsOpen(r) /\ r \notin rows' /\ (\E q \in rows' : q.id = r.id) =>
              \A o \in OpenRows(rows, r.session_id) \ {r} :
                  o.job_number < r.job_number /\ o \in rows']_vars

\* C16: get_job_info returns (None, None) when the session has no closed row,
\* and otherwise the job_number and duration_seconds of a closed row of the
\* session that no other closed row of the session has a later stopped_at than.
C16_JobInfoIsLatestStopped ==
    [][\A p \in Procs :
          pc[p] = "job_info" /\ pc'[p] = "auto_cleanup" =>
              IF ClosedRows(rows, sess[p]) = {} THEN ~job'[p].found
              ELSE \E r \in ClosedRows(rows, sess[p]) :
                       /\ \A q \in ClosedRows(rows, sess[p]) :
                              ~SqlLess(r.stopped_at, q.stopped_at)
                       /\ job'[p].found
                       /\ job'[p].job_number = r.job_number
                       /\ job'[p].duration_seconds = r.duration_seconds.v]_vars

C18_InsertTakesMaxPlusOne ==
    [][\A r \in rows' :
          (\A q \in rows : q.id # r.id) =>
              IF \A q \in rows : q.session_id # r.session_id
              THEN r.job_number = 1
              ELSE /\ \E q \in rows : /\ q.session_id = r.session_id
                                      /\ r.job_number = q.job_number + 1
                   /\ \A q \in rows : q.session_id = r.session_id =>
                                          q.job_number < r.job_number]_vars

\* a session got job_number 1 while the store held a row of another session
C18_Witness ==
    \E r, q \in rows : /\ r.session_id # q.session_id
                        /\ r.id = 1 /\ q.id = 2
                        /\ r.job_number = 1 /\ q.job_number = 1

\* C22: a stop adapter that comes to its auto-cleanup while auto-cleanup is
\* disabled, or while the sentinel is less than 24 hours old, exits without
\* deleting a row, exporting or touching the sentinel; one that comes to it
\* while auto-cleanup is enabled and the sentinel does not exist or is more
\* than 24 hours old starts the cleanup.
C22_CleanupOnlyWhenDue ==
    [][\A p \in Procs :
          pc[p] = "auto_cleanup" /\ pc'[p] # "auto_cleanup" =>
              /\ (\/ ~config.auto_cleanup_enabled
                  \/ sentinel # -1 /\ now - sentinel < 24 * 3600)
                     => /\ pc'[p] = "idle"
                        /\ rows' = rows
                        /\ sentinel' = sentinel
                        /\ stats'[p].rows_exported = 0
              /\ (/\ config.auto_cleanup_enabled
                  /\ (sentinel = -1 \/ now - sentinel > 24 * 3600))
                     => pc'[p] = "purge"]_vars

\* every stop adapter has exited, the last one closed a row at the present
\* time, and the sentinel is from an earlier time less than 24 hours ago
C22_Witness ==
    /\ config.auto_cleanup_enabled
    /\ \A p \in Procs : pc[p] = "idle"
    /\ sentinel # -1
    /\ sentinel < now
    /\ now - sentinel < 24 * 3600
    /\ \E r \in rows : ~IsOpen(r) /\ r.stopped_at.v = now

\* C26: a stop adapter whose mark_stopped closed no row sends no job-done
\* notification.
C26_NoNotificationWithoutClosedRow ==
    \A p \in Procs :
        pc[p] = "auto_cleanup" /\ ~closedRow[p].found => ~sent[p].found

C28_StoppedIffDuration ==
    \A r \in rows : IsNull(r.stopped_at) <=> IsNull(r.duration_seconds)

\* a closed row with its duration, and an open row that a waiting event marked
C28_Witness ==
    \E r, q \in rows :
        /\ ~IsNull(r.stopped_at) /\ ~IsNull(r.duration_seconds)
        /\ IsNull(q.stopped_at) /\ IsNull(q.duration_seconds)
        /\ ~IsNull(q.last_wait_at)

(***************************************************************************)
(* Properties of the adapters run as one step (AdapterSpec).               *)
(***************************************************************************)
\* the input is a JSON object whose session_id is present, not empty and at
\* most 255 characters long, and whose cwd, if present, has no ".." in it
\* the events that are adapter runs
AdapterKinds == {"UserPromptSubmit", "Notification", "Stop"}

WellFormed(data) ==
    /\ data.json = "object"
    /\ data.has_session_id
    /\ data.session_id.n >= 1
    /\ data.session_id.n <= 255
    /\ ~(data.has_cwd /\ \E i \in 1..(Len(data.cwd) - 1) :
                            SubSeq(data.cwd, i, i + 1) = <<".", ".">>)

\* C12: a waiting or stop adapter that runs while its session has no open
\* row (and whose store opens) changes no row, inserts no row and exits with
\* status 0.
C12_NoOpenRowIsNoOp ==
    [][(/\ event'.kind \in {"Stop", "Notification"}
        /\ WellFormed(event'.data)
        /\ failedOp' # "_init_database"
        /\ OpenRows(rows, event'.data.session_id) = {})
           => rows' = rows /\ nextId' = nextId /\ exitStatus' = 0]_vars

\* a stop adapter ran (its cleanup touched the sentinel at the present time)
\* on a session whose only row had been closed before
C12_Witness ==
    /\ event.kind = "Stop"
    /\ exitStatus = 0
    /\ failedOp = "none"
    /\ sentinel = now
    /\ \E r \in rows : /\ r.session_id = event.data.session_id
                       /\ ~IsOpen(r)
                       /\ r.stopped_at.v < now

C14_FailedOperationIsNoOp ==
    [][failedOp' \in {"track_prompt", "mark_waiting", "mark_stopped", "DELETE", "VACUUM"}
           => /\ exitStatus' = 0
              /\ nextId' = nextId
              /\ {r.id : r \in rows'} = {r.id : r \in rows}
              /\ failedOp' \in {"track_prompt", "mark_waiting", "mark_stopped"}
                     => rows' = rows]_vars

\* mark_stopped failed in a stop adapter whose session has an open row
C14_Witness ==
    /\ event.kind = "Stop"
    /\ failedOp = "mark_stopped"
    /\ exitStatus = 0
    /\ OpenRows(rows, event.data.session_id) # {}

\* C19: an adapter whose input has a cwd containing ".." or a session_id that
\* is empty or longer than 255 characters inserts no row, updates no row and
\* sends no notification.
C19_InvalidInputTouchesNothing ==
    [][(/\ event'.kind \in AdapterKinds
        /\ event'.data.json = "object"
        /\ \/ /\ event'.data.has_cwd
              /\ \E i \in 1..(Len(event'.data.cwd) - 1) :
                     SubSeq(event'.data.cwd, i, i + 1) = <<".", ".">>
           \/ /\ event'.data.has_session_id
              /\ (event'.data.session_id.n = 0 \/ event'.data.session_id.n > 255))
           => /\ rows' = rows
              /\ nextId' = nextId
              /\ notified' = NoJob
              /\ exitStatus' = 1]_vars

\* a stop event with ".." in its cwd, for a session with an open row
C19_Witness ==
    /\ event.kind = "Stop"
    /\ event.data.has_cwd
    /\ \E i \in 1..(Len(event.data.cwd) - 1) : event.data.cwd[i] = "."
                                               /\ event.data.cwd[i + 1] = "."
    /\ exitStatus = 1
    /\ OpenRows(rows, event.data.session_id) # {}

\* C23: when export_to_json fails in the cleanup of a stop adapter, the
\* DELETE of that cleanup still removes every row created before the cutoff,
\* and the stats carry rows_exported = 0 and the number of rows removed.
C23_PurgeRunsAfterFailedExport ==
    [][(event'.kind = "Stop" /\ now' = now /\ failedOp' = "export_to_json")
           => LET c == now - config.retention_days * DaySeconds
                  old == {r \in rows : r.created_at.v < c}
              IN  /\ report'.called
                  /\ report'.rows_exported = 0
                  /\ \A r \in rows' : ~(r.created_at.v < c)
                  /\ report'.rows_deleted = Cardinality(old)]_vars

\* C24: export_to_json with days writes exactly the rows created before
\* now - days * 86400, and without days every row; it returns the number of
\* rows it wrote and leaves the store as it was.
C24_ExportWritesRowsBeforeCutoff ==
    [][(event'.kind = "export" /\ now' = now /\ failedOp' = "none")
           => /\ rows' = rows
              /\ exportFile'.written
              /\ exportFile'.rows =
                     IF event'.days.given
                     THEN {r \in rows : r.created_at.v < now - event'.days.v * DaySeconds}
                     ELSE rows
              /\ exportFile'.count = Cardinality(exportFile'.rows)]_vars

\* C25: cleanup_old_data is never called with retention_days below 1.
C25_RetentionAtLeastOneDay ==
    report.called => report.retention_days >= 1

C30_OnlyWaitingMessagesMarkWaiting ==
    [][(event'.kind = "Notification" /\ now' = now)
           => /\ notified' = NoJob
              /\ nextId' = nextId
              /\ {r.id : r \in rows'} = {r.id : r \in rows}
              /\ rows' # rows
                     => event'.message \in {"Claude is waiting for input",
                                            "WAITING FOR USER", "Approval Needed: rm"}
              /\ Cardinality(rows' \ rows) <= 1
              /\ \A r \in rows' \ rows :
                     \E q \in OpenRows(rows, event'.data.session_id) :
                         r = [q EXCEPT !.last_wait_at = SqlText(now)]
              /\ (/\ event'.message \in {"Claude is waiting for input",
                                          "WAITING FOR USER", "Approval Needed: rm"}
                  /\ exitStatus' = 0
                  /\ failedOp' = "none"
                  /\ OpenRows(rows, event'.data.session_id) # {})
                     => \E q \in OpenRows(rows, event'.data.session_id) :
                            [q EXCEPT !.last_wait_at = SqlText(now)] \in rows']_vars

\* a notification adapter whose message has a keyword in capital letters
\* marked the open row of its session, one second after the submit
C30_Witness ==
    /\ event.kind = "Notification"
    /\ event.message = "WAITING FOR USER"
    /\ now = 1
    /\ \E r \in rows : /\ r.session_id = event.data.session_id
                        /\ IsOpen(r)
                        /\ r.created_at = SqlText(0)
                        /\ r.last_wait_at = SqlText(1)

(***************************************************************************)
(* Properties of MacNotifier (NotifierSpec).                               *)
(***************************************************************************)
\* C21: a call of send_notification returns True or False and raises nothing;
\* an instance probes availability at most once; and a call on an instance
\* whose _available is False returns False without probing and without
\* contacting the delivery.
C21_SendNeverRaisesAndCachesAvailability ==
    [][\A n \in Notifiers :
           notifiers'[n].calls # notifiers[n].calls
               => /\ sendResult' \in {"True", "False"}
                  /\ notifiers'[n].probes <= 1
                  /\ notifiers[n].available = "False"
                         => /\ sendResult' = "False"
                            /\ notifiers'[n].contacts = notifiers[n].contacts
                            /\ notifiers'[n].probes = notifiers[n].probes
                            /\ notifiers'[n].available = "False"]_vars

\* an instance of cc_notifier was called three times: the delivery raised in
\* the second call, and the third returned False without contacting it
C21_Witness ==
    /\ package = "cc_notifier"
    /\ notifiers["n1"].calls = 3
    /\ notifiers["n1"].contacts = 2
    /\ notifiers["n1"].probes = 1
    /\ notifiers["n1"].available = "False"
    /\ sendResult = "False"

(***************************************************************************)
(* Properties of format_duration (FormatSpec).                             *)
(***************************************************************************)
\* C20: format_duration(S) is "{S}s" for S < 60; for 60 <= S < 3600 it is
\* "{S//60}m" when S % 60 = 0 and "{S//60}m{S%60}s" otherwise; for S >= 3600
\* it is "{S//3600}h" when (S//60) % 60 = 0 and "{S//3600}h{(S//60)%60}m"
\* otherwise.  So 53 gives "53s", 130 "2m10s", 240 "4m", 3600 "1h" and 3661
\* "1h1m".
C20_FormatDuration ==
    formatted # <<>> =>
        /\ seconds < 60 => formatted = Decimal(seconds) \o <<"s">>
        /\ seconds >= 60 /\ seconds < 3600 /\ seconds % 60 = 0 =>
               formatted = Decimal(seconds \div 60) \o <<"m">>
        /\ seconds >= 60 /\ seconds < 3600 /\ seconds % 60 # 0 =>
               formatted = Decimal(seconds \div 60) \o <<"m">>
                               \o Decimal(seconds % 60) \o <<"s">>
        /\ seconds >= 3600 /\ (seconds \div 60) % 60 = 0 =>
               formatted = Decimal(seconds \div 3600) \o <<"h">>
        /\ seconds >= 3600 /\ (seconds \div 60) % 60 # 0 =>
               formatted = Decimal(seconds \div 3600) \o <<"h">>
                               \o Decimal((seconds \div 60) % 60) \o <<"m">>
        /\ seconds = 53 => formatted = <<"5", "3", "s">>
        /\ seconds = 130 => formatted = <<"2", "m", "1", "0", "s">>
        /\ seconds = 240 => formatted = <<"4", "m">>
        /\ seconds = 3600 => formatted = <<"1", "h">>
        /\ seconds = 3661 => formatted = <<"1", "h", "1", "m">>

\* an argument above one hour whose seconds are dropped
C20_Witness == seconds = 3661 /\ formatted = <<"1", "h", "1", "m">>
====
